---- MODULE Spec2Model ----
(***************************************************************************)
(* Model of src/scripts/investment_calculator.py: the provider boundary    *)
(* (get_stock_price_history), the single-security calculator               *)
(* (calculate_investment_returns), the constant-growth fallback            *)
(* (calculate_fallback_returns) and the portfolio aggregator               *)
(* (calculate_portfolio_returns).                                          *)
(*                                                                         *)
(* Numbers are exact rationals <<n, d>> (d > 0, lowest terms): the code's   *)
(* floats are modelled by the real numbers they approximate.  A Python      *)
(* exception is the value of the variable "raised".                        *)
(***************************************************************************)
EXTENDS Integers, Sequences, FiniteSets, TLC

VARIABLES
    op,                 \* the exposed operation being executed
    pc,                 \* position inside that operation
    HAS_YFINANCE,       \* module flag set at import time
    monthly_savings,    \* portfolio argument: sequence of contributions
    stock_symbols,      \* portfolio argument / local (None or a sequence)
    weights,            \* portfolio argument / local (None or a sequence)
    total_initial,      \* portfolio local
    stock_results,      \* portfolio local: list of {symbol, weight, result}
    initial_investment, \* argument of the running calculate_* call
    start_date,         \* argument of the running calculate_* call
    end_date,           \* argument of the running calculate_* call
    yf_outcome,         \* what yfinance did in the latest fetch
    price_history,      \* value returned by the latest get_stock_price_history
    stock_symbol,       \* argument of the running calculate_* call
    idx,                \* portfolio: position of the per-symbol loop
    stock_symbols_arg,  \* stock_symbols as passed by the caller
    weights_arg,        \* weights as passed by the caller
    result,             \* InvestmentResult returned by the last calculate_* call
    ret,                \* value returned by calculate_portfolio_returns
    raised              \* exception that escaped the operation, or "none"

vars == <<op, pc, HAS_YFINANCE, monthly_savings, stock_symbols, weights,
          total_initial, stock_results, initial_investment, start_date,
          end_date, yf_outcome, price_history, stock_symbol, idx,
          stock_symbols_arg, weights_arg, result, ret, raised>>

\* The state of the API server (src/mcp/api_server.py) around the
\* stocks-to-invest endpoint
VARIABLES
    clock,              \* datetime.now(), in seconds
    cache_file,         \* cache/stocks_to_invest.json: None or {data, cached_at}
    requests            \* the calls of get_stocks_to_invest, by request slot

api_vars == <<clock, cache_file, requests>>

----------------------------------------------------------------------------
(* Bounds of the model *)

MaxSeriesLen == 3
MaxAmount == 2
MaxSymbols == 2
MaxContribs == 2

Prices == {0, 1, 2}
SeriesDates == {<<2023, 1, 10>>, <<2023, 2, 5>>, <<2023, 2, 15>>}
CallDates == {<<2022, 12, 15>>, <<2023, 1, 1>>, <<2023, 3, 5>>}
WeightVals == {-1, 0, 1, 2}
Months == {<<2022, 12>>, <<2023, 1>>, <<2023, 2>>}
SavingsVals == {0, 1}
SymbolNames == <<"AAA", "BBB", "CCC", "DDD">>

\* a variable not yet assigned
NoValue == "NoValue"

\* Optional values: Python's None, or a value that is present
None == [is_none |-> TRUE, val |-> <<>>]
Some(v) == [is_none |-> FALSE, val |-> v]

\* How a function call ends: an exception escapes it, or it returns a value
Raise(exc) == [raised |-> exc, value |-> NoValue]
Return(v) == [raised |-> "none", value |-> v]

----------------------------------------------------------------------------
(* Exact arithmetic standing for Python floats *)

Abs(x) == IF x < 0 THEN -x ELSE x

RECURSIVE GCD(_, _)
GCD(a, b) == IF b = 0 THEN a ELSE GCD(b, a % b)

Rat(n, d) ==
    LET g == GCD(Abs(n), Abs(d))
        s == IF d < 0 THEN -1 ELSE 1
    IN  <<(s * n) \div g, (s * d) \div g>>

RInt(n) == <<n, 1>>
RZero == <<0, 1>>
ROne == <<1, 1>>
RAdd(a, b) ==
    LET g == GCD(a[2], b[2])
    IN  Rat(a[1] * (b[2] \div g) + b[1] * (a[2] \div g), (a[2] \div g) * b[2])
RSub(a, b) == RAdd(a, <<-b[1], b[2]>>)
RMul(a, b) ==
    LET g1 == GCD(Abs(a[1]), b[2])
        g2 == GCD(Abs(b[1]), a[2])
    IN  Rat((a[1] \div g1) * (b[1] \div g2), (a[2] \div g2) * (b[2] \div g1))
RDiv(a, b) == RMul(a, IF b[1] < 0 THEN <<-b[2], -b[1]>> ELSE <<b[2], b[1]>>)
RLt(a, b) == a[1] * b[2] < b[1] * a[2]
RLe(a, b) == a[1] * b[2] <= b[1] * a[2]
RIsZero(a) == a[1] = 0

RECURSIVE RSum(_)
RSum(s) == IF s = <<>> THEN RZero ELSE RAdd(Head(s), RSum(Tail(s)))

\* c * sqrt(r): the form of the two results that pass through a square root
Surd(c, r) == [coef |-> c, radicand |-> r]

----------------------------------------------------------------------------
(* Dates: datetime values and their '%Y-%m-%d' labels are <<y, m, d>>;      *)
(* the zero-padded labels compare as the triples do.                       *)

IsLeap(y) == (y % 4 = 0 /\ y % 100 # 0) \/ y % 400 = 0

DaysInMonth(y, m) ==
    IF m = 2 THEN (IF IsLeap(y) THEN 29 ELSE 28)
    ELSE IF m \in {4, 6, 9, 11} THEN 30 ELSE 31

RECURSIVE AddDays(_, _)
AddDays(date, n) ==
    LET y == date[1]
        m == date[2]
        d == date[3]
        dim == DaysInMonth(y, m)
    IN  IF d + n <= dim THEN <<y, m, d + n>>
        ELSE AddDays(IF m = 12 THEN <<y + 1, 1, 1>> ELSE <<y, m + 1, 1>>,
                     n - (dim - d + 1))

DateLe(a, b) ==
    \/ a[1] < b[1]
    \/ a[1] = b[1] /\ a[2] < b[2]
    \/ a[1] = b[1] /\ a[2] = b[2] /\ a[3] <= b[3]

YearMonth(date) == <<date[1], date[2]>>

YearMonthLt(a, b) == a[1] < b[1] \/ (a[1] = b[1] /\ a[2] < b[2])

Last(s) == s[Len(s)]
Front(s) == SubSeq(s, 1, Len(s) - 1)

----------------------------------------------------------------------------
(* The provider boundary *)

RECURSIVE SeqsUpTo(_, _)
SeqsUpTo(S, n) ==
    IF n = 0 THEN {<<>>}
    ELSE LET shorter == SeqsUpTo(S, n - 1)
         IN  shorter \cup {Append(s, x) : s \in {t \in shorter : Len(t) = n - 1}, x \in S}

PricePoint == [date : SeriesDates, price : Prices]

\* What ticker.history can do: raise, give an empty frame, give rows, or,
\* being called without a timeout, not return at all.
YfResponses ==
    {[kind |-> "raises", rows |-> <<>>], [kind |-> "empty", rows |-> <<>>],
     [kind |-> "hangs", rows |-> <<>>]}
    \cup {[kind |-> "rows", rows |-> s] : s \in SeqsUpTo(PricePoint, MaxSeriesLen) \ {<<>>}}

\* the same without the "except Exception" clause: the fetch error escapes
get_stock_price_history_uncaught(has_yf, response) ==
    IF ~has_yf THEN Return(None)
    ELSE IF response.kind = "raises" THEN Raise("ConnectionError at line 56")
    ELSE IF response.kind = "empty" THEN Return(None)
    ELSE Return(Some(response.rows))

get_stock_price_history(has_yf, response) ==
    IF ~has_yf THEN Return(None)
    ELSE IF response.kind = "raises" THEN Return(None)
    ELSE IF response.kind = "empty" THEN Return(None)
    ELSE Return(Some(response.rows))

----------------------------------------------------------------------------
(* calculate_fallback_returns *)

RECURSIVE Repeat(_, _)
Repeat(x, n) == IF n <= 0 THEN <<>> ELSE <<x>> \o Repeat(x, n - 1)

Max(a, b) == IF a >= b THEN a ELSE b

monthly_return_rate == Rat(10, 100 * 12)

MonthsBetween(start, end) == (end[1] - start[1]) * 12 + (end[2] - start[2])

\* the loop "for i in range(months)": values and date labels after i steps
RECURSIVE FallbackValues(_, _)
FallbackValues(initial, n) ==
    IF n <= 0 THEN <<initial>>
    ELSE LET prev == FallbackValues(initial, n - 1)
         IN  Append(prev, RMul(Last(prev), RAdd(ROne, monthly_return_rate)))

RECURSIVE FallbackDates(_, _)
FallbackDates(start, n) ==
    IF n <= 0 THEN <<start>>
    ELSE Append(FallbackDates(start, n - 1), AddDays(start, 30 * n))

\* the same without the "if initial_investment > 0" guard, dividing as
\* numpy floats do: 0 / 0 is nan, written <<0, 0>>
PercentOfUnguarded(total_return, initial) ==
    IF RIsZero(initial) THEN <<0, 0>>
    ELSE RMul(RDiv(total_return, initial), RInt(100))

PercentOf(total_return, initial) ==
    IF RLt(RZero, initial)
    THEN RMul(RDiv(total_return, initial), RInt(100))
    ELSE RZero

calculate_fallback_returns(initial, start, end, symbol) ==
    LET months == MonthsBetween(start, end)
        values == FallbackValues(initial, months)
        final_value == Last(values)
        total_return == RSub(final_value, initial)
    IN  [initial_investment |-> initial,
         final_value |-> final_value,
         total_return |-> total_return,
         total_return_percent |-> PercentOf(total_return, initial),
         monthly_returns |-> Repeat(RMul(monthly_return_rate, RInt(100)), Max(1, months)),
         monthly_values |-> values,
         dates |-> FallbackDates(start, months - 1),
         stock_symbol |-> symbol,
         average_monthly_return |-> RMul(monthly_return_rate, RInt(100)),
         volatility |-> Surd(RInt(2), ROne),
         sharpe_ratio |-> Surd(Rat(3, 2), ROne)]

----------------------------------------------------------------------------
(* calculate_investment_returns *)

\* list.sort(key=lambda x: x[0]): stable, ascending by date label
RECURSIVE InsertByDate(_, _)
InsertByDate(p, s) ==
    IF s = <<>> THEN <<p>>
    ELSE IF DateLe(Last(s).date, p.date) THEN Append(s, p)
    ELSE Append(InsertByDate(p, Front(s)), Last(s))

\* the series taken in the order the provider delivered it
SortByDateSkipped(s) == SubSeq(s, 1, Len(s))

RECURSIVE SortByDate(_)
SortByDate(s) ==
    IF s = <<>> THEN <<>> ELSE InsertByDate(Last(s), SortByDate(Front(s)))

\* sorted(monthly_prices.keys())
RECURSIVE SortedKeys(_)
SortedKeys(S) ==
    IF S = {} THEN <<>>
    ELSE LET m == CHOOSE x \in S : \A y \in S : x = y \/ YearMonthLt(x, y)
         IN  <<m>> \o SortedKeys(S \ {m})

\* monthly_prices[year_month]: the prices of that month, in series order
MonthPrices(series, ym) ==
    LET InMonth(p) == YearMonth(p.date) = ym
        pts == SelectSeq(series, InMonth)
    IN  [i \in 1..Len(pts) |-> pts[i].price]

RMean(s) == RDiv(RSum(s), RInt(Len(s)))

RVariance(s) ==
    LET mu == RMean(s)
    IN  RMean([i \in 1..Len(s) |-> RMul(RSub(s[i], mu), RSub(s[i], mu))])

risk_free_rate_monthly == Rat(167, 1000)

\* the same with "len(price_history) < 1"
FallbackThresholdOffByOne == 2 - 1

FallbackThreshold == 2

\* the same with the final value taken from the last monthly mark
HistoricalReturnsLastMark(initial, symbol, series) ==
    LET start_price == series[1].price
        end_price == Last(series).price
    IN  IF start_price = 0 THEN Raise("ZeroDivisionError at line 113")
        ELSE
        LET shares_owned == RDiv(initial, RInt(start_price))
            keys == SortedKeys({YearMonth(series[i].date) : i \in 1..Len(series)})
            later == Tail(keys)
            values == [i \in 1..Len(later) |->
                          RMul(shares_owned, RInt(Last(MonthPrices(series, later[i]))))]
            returns == [i \in 1..Len(later) |->
                          LET prev_value == IF i = 1 THEN initial ELSE values[i - 1]
                          IN  IF RLt(RZero, prev_value)
                              THEN RMul(RDiv(RSub(values[i], prev_value), prev_value),
                                        RInt(100))
                              ELSE RZero]
            final_value == IF Len(later) = 0 THEN initial ELSE values[Len(later)]
            total_return == RSub(final_value, initial)
            avg == IF Len(returns) > 0 THEN RMean(returns) ELSE RZero
            variance == IF Len(returns) > 1 THEN RVariance(returns) ELSE RZero
        IN  Return(
            [initial_investment |-> initial,
             final_value |-> final_value,
             total_return |-> total_return,
             total_return_percent |-> PercentOf(total_return, initial),
             monthly_returns |-> returns,
             monthly_values |-> <<initial>> \o values,
             dates |-> <<series[1].date>>
                       \o [i \in 1..Len(later) |-> <<later[i][1], later[i][2], 1>>],
             stock_symbol |-> symbol,
             average_monthly_return |-> avg,
             volatility |-> IF RLt(RZero, variance) THEN Surd(ROne, variance)
                            ELSE Surd(RZero, ROne),
             sharpe_ratio |-> IF RLt(RZero, variance)
                              THEN Surd(RDiv(RSub(avg, risk_free_rate_monthly), variance),
                                        variance)
                              ELSE Surd(RZero, ROne)])

\* lines 105-162: the historical path, on the sorted series
HistoricalReturns(initial, symbol, series) ==
    LET start_price == series[1].price
        end_price == Last(series).price
    IN  IF start_price = 0 THEN Raise("ZeroDivisionError at line 113")
        ELSE
        LET shares_owned == RDiv(initial, RInt(start_price))
            keys == SortedKeys({YearMonth(series[i].date) : i \in 1..Len(series)})
            later == Tail(keys)
            values == [i \in 1..Len(later) |->
                          RMul(shares_owned, RInt(Last(MonthPrices(series, later[i]))))]
            returns == [i \in 1..Len(later) |->
                          LET prev_value == IF i = 1 THEN initial ELSE values[i - 1]
                          IN  IF RLt(RZero, prev_value)
                              THEN RMul(RDiv(RSub(values[i], prev_value), prev_value),
                                        RInt(100))
                              ELSE RZero]
            final_value == RMul(shares_owned, RInt(end_price))
            total_return == RSub(final_value, initial)
            avg == IF Len(returns) > 0 THEN RMean(returns) ELSE RZero
            variance == IF Len(returns) > 1 THEN RVariance(returns) ELSE RZero
        IN  Return(
            [initial_investment |-> initial,
             final_value |-> final_value,
             total_return |-> total_return,
             total_return_percent |-> PercentOf(total_return, initial),
             monthly_returns |-> returns,
             monthly_values |-> <<initial>> \o values,
             dates |-> <<series[1].date>>
                       \o [i \in 1..Len(later) |-> <<later[i][1], later[i][2], 1>>],
             stock_symbol |-> symbol,
             average_monthly_return |-> avg,
             volatility |-> IF RLt(RZero, variance) THEN Surd(ROne, variance)
                            ELSE Surd(RZero, ROne),
             sharpe_ratio |-> IF RLt(RZero, variance)
                              THEN Surd(RDiv(RSub(avg, risk_free_rate_monthly), variance),
                                        variance)
                              ELSE Surd(RZero, ROne)])

\* lines 95-162, given what get_stock_price_history returned
calculate_investment_returns(initial, symbol, start, end, history) ==
    IF history = None \/ history.val = <<>>
    THEN Return(calculate_fallback_returns(initial, start, end, symbol))
    ELSE IF Len(history.val) < FallbackThreshold
    THEN Return(calculate_fallback_returns(initial, start, end, symbol))
    ELSE HistoricalReturns(initial, symbol, SortByDate(history.val))

----------------------------------------------------------------------------
(* calculate_portfolio_returns *)

DefaultSymbols == <<"SPY", "QQQ", "VTI">>

\* [1.0 / len(stock_symbols)] * len(stock_symbols), for n > 0
EqualWeights(n) == [i \in 1..n |-> Rat(1, n)]

\* the same keeping the weights as they come, without the division by
\* their sum
NormalizeWeightsUnscaled(symbols_in, weights_in) ==
    LET symbols == IF symbols_in = None THEN DefaultSymbols ELSE symbols_in.val
        n == Len(symbols)
        reset == weights_in = None \/ Len(weights_in.val) # n
    IN  IF reset /\ n = 0
        THEN Raise(IF weights_in = None THEN "ZeroDivisionError at line 229"
                   ELSE "ZeroDivisionError at line 232")
        ELSE
        LET w == IF reset THEN EqualWeights(n) ELSE weights_in.val
            total_weight == RSum(w)
        IN  IF Len(w) > 0 /\ RIsZero(total_weight)
            THEN Raise("ZeroDivisionError at line 236")
            ELSE Return([symbols |-> symbols, weights |-> w])

\* lines 225-236: the symbols and weights in use after defaulting, the
\* length check and the normalisation, or the exception a division raises
NormalizeWeights(symbols_in, weights_in) ==
    LET symbols == IF symbols_in = None THEN DefaultSymbols ELSE symbols_in.val
        n == Len(symbols)
        reset == weights_in = None \/ Len(weights_in.val) # n
    IN  IF reset /\ n = 0
        THEN Raise(IF weights_in = None THEN "ZeroDivisionError at line 229"
                   ELSE "ZeroDivisionError at line 232")
        ELSE
        LET w == IF reset THEN EqualWeights(n) ELSE weights_in.val
            total_weight == RSum(w)
        IN  IF Len(w) > 0 /\ RIsZero(total_weight)
            THEN Raise("ZeroDivisionError at line 236")
            ELSE Return([symbols |-> symbols,
                         weights |-> [i \in 1..Len(w) |-> RDiv(w[i], total_weight)]])

RECURSIVE SumSavings(_)
SumSavings(ms) == IF ms = <<>> THEN 0 ELSE Head(ms).savings + SumSavings(Tail(ms))

\* round(x, 2): to the nearest hundredth, ties to even
Round2(x) ==
    LET whole == x[1] \div x[2]
        frac == x[1] - whole * x[2]
        q == whole * 100 + (frac * 100) \div x[2]
        rem == (frac * 100) % x[2]
        up == 2 * rem > x[2] \/ (2 * rem = x[2] /\ q % 2 = 1)
    IN  Rat(IF up THEN q + 1 ELSE q, 100)

RECURSIVE RPow(_, _)
RPow(x, n) == IF n <= 0 THEN ROne ELSE RMul(x, RPow(x, n - 1))

\* list.index(x): 0-based position of the first element equal to x
ListIndex(s, x) == (CHOOSE i \in 1..Len(s) : s[i] = x /\ \A j \in 1..(i - 1) : s[j] # x) - 1

avg_monthly_return == Rat(10, 100 * 12)

\* the same with the earnings subtracted the wrong way round
MonthlyBreakdownEarningsFlipped(ms) ==
    LET Entry(i) ==
            LET month_data == ms[i]
                months_until_end == Len(ms) - ListIndex(ms, month_data)
                future_value == RMul(RInt(month_data.savings),
                                     RPow(RAdd(ROne, avg_monthly_return), months_until_end))
            IN  [month |-> month_data.month,
                 monthLabel |-> month_data.monthLabel,
                 savings |-> RInt(month_data.savings),
                 potential_value |-> future_value,
                 potential_earnings |-> RSub(RInt(month_data.savings), future_value)]
        F[i \in 0..Len(ms)] ==
            IF i = 0 THEN <<>>
            ELSE IF ms[i].savings = 0 THEN F[i - 1]
            ELSE Append(F[i - 1], Entry(i))
    IN  F[Len(ms)]

\* lines 282-303
MonthlyBreakdown(ms) ==
    LET Entry(i) ==
            LET month_data == ms[i]
                months_until_end == Len(ms) - ListIndex(ms, month_data)
                future_value == RMul(RInt(month_data.savings),
                                     RPow(RAdd(ROne, avg_monthly_return), months_until_end))
            IN  [month |-> month_data.month,
                 monthLabel |-> month_data.monthLabel,
                 savings |-> RInt(month_data.savings),
                 potential_value |-> future_value,
                 potential_earnings |-> RSub(future_value, RInt(month_data.savings))]
        F[i \in 0..Len(ms)] ==
            IF i = 0 THEN <<>>
            ELSE IF ms[i].savings = 0 THEN F[i - 1]
            ELSE Append(F[i - 1], Entry(i))
    IN  F[Len(ms)]

\* lines 240-246
ShortCircuitResult ==
    [total_earnings |-> RZero,
     total_return_percent |-> RZero,
     final_value |-> RZero,
     monthly_breakdown |-> <<>>]

\* the same with the total taken over the symbols after the first
PortfolioResultSkipsFirst(total, results, ms) ==
    LET total_final_value == RSum([i \in 1..(Len(results) - 1) |->
                                      results[i + 1].result.final_value])
        total_earnings == RSub(total_final_value, total)
    IN  [total_earnings |-> Round2(total_earnings),
         total_return_percent |-> Round2(PercentOf(total_earnings, total)),
         final_value |-> Round2(total_final_value),
         initial_investment |-> Round2(total),
         stock_results |->
             [i \in 1..Len(results) |->
                 [symbol |-> results[i].symbol,
                  weight |-> results[i].weight,
                  final_value |-> Round2(results[i].result.final_value),
                  return_percent |-> Round2(results[i].result.total_return_percent)]],
         monthly_breakdown |-> MonthlyBreakdown(ms)]

\* the same with the breakdown scaled by the growth the symbols achieved
PortfolioResultReconciled(total, results, ms) ==
    LET total_final_value == RSum([i \in 1..Len(results) |-> results[i].result.final_value])
        total_earnings == RSub(total_final_value, total)
        breakdown == MonthlyBreakdown(ms)
    IN  [total_earnings |-> Round2(total_earnings),
         total_return_percent |-> Round2(PercentOf(total_earnings, total)),
         final_value |-> Round2(total_final_value),
         initial_investment |-> Round2(total),
         stock_results |->
             [i \in 1..Len(results) |->
                 [symbol |-> results[i].symbol,
                  weight |-> results[i].weight,
                  final_value |-> Round2(results[i].result.final_value),
                  return_percent |-> Round2(results[i].result.total_return_percent)]],
         monthly_breakdown |->
             [k \in 1..Len(breakdown) |->
                 [breakdown[k] EXCEPT
                     !.potential_value = RMul(breakdown[k].savings,
                                              RDiv(total_final_value, total))]]]

\* lines 277-320
PortfolioResult(total, results, ms) ==
    LET total_final_value == RSum([i \in 1..Len(results) |-> results[i].result.final_value])
        total_earnings == RSub(total_final_value, total)
    IN  [total_earnings |-> Round2(total_earnings),
         total_return_percent |-> Round2(PercentOf(total_earnings, total)),
         final_value |-> Round2(total_final_value),
         initial_investment |-> Round2(total),
         stock_results |->
             [i \in 1..Len(results) |->
                 [symbol |-> results[i].symbol,
                  weight |-> results[i].weight,
                  final_value |-> Round2(results[i].result.final_value),
                  return_percent |-> Round2(results[i].result.total_return_percent)]],
         monthly_breakdown |-> MonthlyBreakdown(ms)]

----------------------------------------------------------------------------
(* Inputs *)

Labels == {"label"}
Contribution == [month : Months, monthLabel : Labels, savings : SavingsVals]

SymbolChoices == {None} \cup {Some(SubSeq(SymbolNames, 1, n)) : n \in 0..MaxSymbols}

RatSeq(s) == [i \in 1..Len(s) |-> RInt(s[i])]

WeightChoices == {None} \cup {Some(RatSeq(s)) : s \in SeqsUpTo(WeightVals, MaxSymbols)}

\* The portfolio's inputs meet only in total_initial * weight: the weights
\* vary freely over a few contribution lists, and the contributions vary
\* freely over a few weight lists.
\* a few contribution lists, used where the weights vary freely
SampleContribs ==
    {<<>>,
     <<[month |-> <<2023, 1>>, monthLabel |-> "label", savings |-> 1]>>,
     <<[month |-> <<2023, 1>>, monthLabel |-> "label", savings |-> 1],
       [month |-> <<2023, 2>>, monthLabel |-> "label", savings |-> 1]>>}

\* a few weight lists, used where the contributions vary freely
SampleWeights == {None, Some(RatSeq(<<2>>)), Some(RatSeq(<<1, 1>>))}

\* the price series the data source holds for the portfolio's symbols
MarketSeries ==
    {<<[date |-> <<2023, 1, 10>>, price |-> 1]>>,
     <<[date |-> <<2023, 2, 15>>, price |-> 2], [date |-> <<2023, 1, 10>>, price |-> 1]>>,
     <<[date |-> <<2023, 1, 10>>, price |-> 2], [date |-> <<2023, 2, 15>>, price |-> 1]>>,
     <<[date |-> <<2023, 1, 10>>, price |-> 0], [date |-> <<2023, 1, 20>>, price |-> 1]>>}

MarketResponses ==
    {[kind |-> "raises", rows |-> <<>>], [kind |-> "empty", rows |-> <<>>],
     [kind |-> "hangs", rows |-> <<>>]}
    \cup {[kind |-> "rows", rows |-> s] : s \in MarketSeries}

NotInstalled == [kind |-> "not_installed", rows |-> <<>>]

\* the API server is not running
ApiIdle ==
    /\ clock = 0
    /\ cache_file = None
    /\ requests = <<>>

Idle ==
    /\ total_initial = NoValue
    /\ stock_results = <<>>
    /\ idx = 1
    /\ yf_outcome = "-"
    /\ price_history = None
    /\ result = NoValue
    /\ ret = NoValue
    /\ raised = "none"
    /\ ApiIdle

\* a direct call of calculate_investment_returns or calculate_fallback_returns
InitInvestment ==
    /\ op \in {"investment", "fallback"}
    /\ pc = IF op = "investment" THEN "fetch" ELSE "fallback"
    /\ HAS_YFINANCE \in BOOLEAN
    /\ initial_investment \in {RInt(a) : a \in 0..MaxAmount}
    /\ start_date \in CallDates
    /\ end_date \in CallDates
    /\ stock_symbol = "AAA"
    /\ monthly_savings = <<>>
    /\ stock_symbols = None
    /\ weights = None
    /\ stock_symbols_arg = None
    /\ weights_arg = None
    /\ Idle

\* a call of calculate_portfolio_returns
InitPortfolio ==
    /\ op = "portfolio"
    /\ pc = "normalize"
    /\ HAS_YFINANCE \in BOOLEAN
    /\ \/ monthly_savings \in SampleContribs /\ weights_arg \in WeightChoices
       \/ monthly_savings \in SeqsUpTo(Contribution, MaxContribs) /\ weights_arg \in SampleWeights
    /\ stock_symbols_arg \in SymbolChoices
    /\ stock_symbols = stock_symbols_arg
    /\ weights = weights_arg
    /\ initial_investment = NoValue
    /\ start_date = NoValue
    /\ end_date = NoValue
    /\ stock_symbol = NoValue
    /\ Idle

Init == InitInvestment \/ InitPortfolio

----------------------------------------------------------------------------
(* Steps *)

\* lines 225-236
Normalize ==
    /\ pc = "normalize"
    /\ LET out == NormalizeWeights(stock_symbols, weights)
       IN  IF out.raised # "none"
           THEN /\ raised' = out.raised
                /\ pc' = "done"
                /\ UNCHANGED <<stock_symbols, weights>>
           ELSE /\ stock_symbols' = Some(out.value.symbols)
                /\ weights' = Some(out.value.weights)
                /\ pc' = "total"
                /\ UNCHANGED raised
    /\ UNCHANGED <<op, HAS_YFINANCE, monthly_savings, total_initial, stock_results,
                   initial_investment, start_date, end_date, yf_outcome, price_history,
                   stock_symbol, idx, stock_symbols_arg, weights_arg, result, ret>>
    /\ UNCHANGED api_vars

\* lines 238-246
Total ==
    /\ pc = "total"
    /\ total_initial' = RInt(SumSavings(monthly_savings))
    /\ IF SumSavings(monthly_savings) = 0
       THEN ret' = ShortCircuitResult /\ pc' = "done"
       ELSE ret' = ret /\ pc' = "loop"
    /\ UNCHANGED <<op, HAS_YFINANCE, monthly_savings, stock_symbols, weights, stock_results,
                   initial_investment, start_date, end_date, yf_outcome, price_history,
                   stock_symbol, idx, stock_symbols_arg, weights_arg, result, raised>>
    /\ UNCHANGED api_vars

\* the same leaving the loop one symbol early
LoopStopsEarly ==
    /\ pc = "loop"
    /\ IF idx >= Len(stock_symbols.val) \/ idx >= Len(weights.val)
       THEN /\ pc' = "combine"
            /\ UNCHANGED <<idx, initial_investment, start_date, end_date, stock_symbol>>
       ELSE IF monthly_savings = <<>>
       THEN /\ idx' = idx + 1
            /\ UNCHANGED <<pc, initial_investment, start_date, end_date, stock_symbol>>
       ELSE LET first_month == monthly_savings[1].month
                last_month == Last(monthly_savings).month
            IN  /\ start_date' = <<first_month[1], first_month[2], 1>>
                /\ end_date' = <<last_month[1], last_month[2], 28>>
                /\ initial_investment' = RMul(total_initial, weights.val[idx])
                /\ stock_symbol' = stock_symbols.val[idx]
                /\ pc' = "fetch"
                /\ idx' = idx
    /\ UNCHANGED <<op, HAS_YFINANCE, monthly_savings, stock_symbols, weights, total_initial,
                   stock_results, yf_outcome, price_history, stock_symbols_arg, weights_arg,
                   result, ret, raised>>
    /\ UNCHANGED api_vars

\* the same with the window from the earliest to the latest month present
LoopWindowByMinMax ==
    /\ pc = "loop"
    /\ IF idx > Len(stock_symbols.val) \/ idx > Len(weights.val)
       THEN /\ pc' = "combine"
            /\ UNCHANGED <<idx, initial_investment, start_date, end_date, stock_symbol>>
       ELSE IF monthly_savings = <<>>
       THEN /\ idx' = idx + 1
            /\ UNCHANGED <<pc, initial_investment, start_date, end_date, stock_symbol>>
       ELSE LET ms_months == {monthly_savings[i].month : i \in 1..Len(monthly_savings)}
                first_month == CHOOSE m \in ms_months :
                                   \A m2 \in ms_months : m2 = m \/ YearMonthLt(m, m2)
                last_month == CHOOSE m \in ms_months :
                                  \A m2 \in ms_months : m2 = m \/ YearMonthLt(m2, m)
            IN  /\ start_date' = <<first_month[1], first_month[2], 1>>
                /\ end_date' = <<last_month[1], last_month[2], 28>>
                /\ initial_investment' = RMul(total_initial, weights.val[idx])
                /\ stock_symbol' = stock_symbols.val[idx]
                /\ pc' = "fetch"
                /\ idx' = idx
    /\ UNCHANGED <<op, HAS_YFINANCE, monthly_savings, stock_symbols, weights, total_initial,
                   stock_results, yf_outcome, price_history, stock_symbols_arg, weights_arg,
                   result, ret, raised>>
    /\ UNCHANGED api_vars

\* lines 250-263: the head of one iteration of "for symbol, weight in zip(...)"
Loop ==
    /\ pc = "loop"
    /\ IF idx > Len(stock_symbols.val) \/ idx > Len(weights.val)
       THEN /\ pc' = "combine"
            /\ UNCHANGED <<idx, initial_investment, start_date, end_date, stock_symbol>>
       ELSE IF monthly_savings = <<>>
       THEN /\ idx' = idx + 1
            /\ UNCHANGED <<pc, initial_investment, start_date, end_date, stock_symbol>>
       ELSE LET first_month == monthly_savings[1].month
                last_month == Last(monthly_savings).month
            IN  /\ start_date' = <<first_month[1], first_month[2], 1>>
                /\ end_date' = <<last_month[1], last_month[2], 28>>
                /\ initial_investment' = RMul(total_initial, weights.val[idx])
                /\ stock_symbol' = stock_symbols.val[idx]
                /\ pc' = "fetch"
                /\ idx' = idx
    /\ UNCHANGED <<op, HAS_YFINANCE, monthly_savings, stock_symbols, weights, total_initial,
                   stock_results, yf_outcome, price_history, stock_symbols_arg, weights_arg,
                   result, ret, raised>>
    /\ UNCHANGED api_vars

\* lines 39-69 and 93: the call of get_stock_price_history
Fetch ==
    /\ pc = "fetch"
    /\ \E response \in (IF ~HAS_YFINANCE THEN {NotInstalled}
                        ELSE IF op = "portfolio" THEN MarketResponses ELSE YfResponses) :
          LET out == get_stock_price_history(HAS_YFINANCE, response)
          IN  /\ yf_outcome' = response.kind
              /\ IF response.kind = "hangs"
                 THEN pc' = "blocked" /\ UNCHANGED <<price_history, raised>>
                 ELSE IF out.raised # "none"
                 THEN raised' = out.raised /\ pc' = "done" /\ UNCHANGED price_history
                 ELSE price_history' = out.value /\ pc' = "calc" /\ UNCHANGED raised
    /\ UNCHANGED <<op, HAS_YFINANCE, monthly_savings, stock_symbols, weights, total_initial,
                   stock_results, initial_investment, start_date, end_date, stock_symbol, idx,
                   stock_symbols_arg, weights_arg, result, ret>>
    /\ UNCHANGED api_vars

\* lines 95-162, and for the portfolio lines 265-275
Calc ==
    /\ pc = "calc"
    /\ LET out == calculate_investment_returns(initial_investment, stock_symbol,
                                               start_date, end_date, price_history)
       IN  IF out.raised # "none"
           THEN /\ raised' = out.raised
                /\ pc' = "done"
                /\ UNCHANGED <<result, stock_results, idx>>
           ELSE /\ result' = out.value
                /\ raised' = raised
                /\ IF op = "portfolio"
                   THEN /\ stock_results' = Append(stock_results,
                                                   [symbol |-> stock_symbol,
                                                    weight |-> weights.val[idx],
                                                    result |-> out.value])
                        /\ idx' = idx + 1
                        /\ pc' = "loop"
                   ELSE /\ pc' = "done"
                        /\ UNCHANGED <<stock_results, idx>>
    /\ UNCHANGED <<op, HAS_YFINANCE, monthly_savings, stock_symbols, weights, total_initial,
                   initial_investment, start_date, end_date, stock_symbol, yf_outcome,
                   price_history, stock_symbols_arg, weights_arg, ret>>
    /\ UNCHANGED api_vars

\* lines 165-206, called directly
Fallback ==
    /\ pc = "fallback"
    /\ result' = calculate_fallback_returns(initial_investment, start_date, end_date,
                                            stock_symbol)
    /\ pc' = "done"
    /\ UNCHANGED <<op, HAS_YFINANCE, monthly_savings, stock_symbols, weights, total_initial,
                   stock_results, initial_investment, start_date, end_date, yf_outcome,
                   price_history, stock_symbol, idx, stock_symbols_arg, weights_arg, ret,
                   raised>>
    /\ UNCHANGED api_vars

\* lines 277-320
Combine ==
    /\ pc = "combine"
    /\ ret' = PortfolioResult(total_initial, stock_results, monthly_savings)
    /\ pc' = "done"
    /\ UNCHANGED <<op, HAS_YFINANCE, monthly_savings, stock_symbols, weights, total_initial,
                   stock_results, initial_investment, start_date, end_date, yf_outcome,
                   price_history, stock_symbol, idx, stock_symbols_arg, weights_arg, result,
                   raised>>
    /\ UNCHANGED api_vars

Next == Normalize \/ Total \/ Loop \/ Fetch \/ Calc \/ Fallback \/ Combine

Spec == Init /\ [][Next]_vars

----------------------------------------------------------------------------
(* The stocks-to-invest endpoint of the API server and its file cache *)

MaxRequests == 2
MaxTicks == 3

STOCK_SCREEN_CACHE_TTL == 3600

\* the step by which the model's clock advances: half the TTL, so that an
\* entry is met before, at and after its expiry
TickSeconds == STOCK_SCREEN_CACHE_TTL \div 2

\* What screen_stocks_with_dedalus returns or what the cache holds, by shape:
\*   "screened"           the agent's JSON, fit for StockScreeningResponse
\*   "malformed"          the agent's JSON with a recommendedStocks key whose
\*                        content StockScreeningResponse rejects
\*   "error_with_stocks"  the agent's JSON with an error key and stocks
\*   "fallback"           create_fallback_screening()
\*   "error"              create_error_screening(...): an error, no stocks
Screening(shape, at) == [shape |-> shape, dateGenerated |-> at]

NoData == Screening("none", 0)

ScreenerResults(at) ==
    {Screening(shape, at) :
        shape \in {"screened", "malformed", "error_with_stocks", "fallback", "error"}}

\* 'error' in result
HasError(data) == data.shape \in {"error", "error_with_stocks"}

\* result.get('recommendedStocks') and len(result['recommendedStocks']) > 0
HasStocks(data) == data.shape # "error"

\* StockScreeningResponse(**data) builds without a validation error
Validates(data) == data.shape \in {"screened", "error_with_stocks", "fallback"}

\* load_cache(key, ttl): what it returns and the file it leaves behind
load_cache(file, now, ttl) ==
    IF file = None THEN [data |-> None, file |-> file]
    ELSE IF now - file.val.cached_at > ttl THEN [data |-> None, file |-> None]
    ELSE [data |-> Some(file.val.data), file |-> file]

\* save_cache(key, data) at time now
save_cache(data, now) == Some([data |-> data, cached_at |-> now])

NoResponse == [path |-> "none", status |-> 0, body |-> NoData, cached |-> FALSE]

Response(path, status, body, cached) ==
    [path |-> path, status |-> status, body |-> body, cached |-> cached]

\* a request slot: where the handler stands, whether it has called the
\* screener and written the cache, and its response
FreeSlot == [pc |-> "idle", invoked |-> FALSE, wrote |-> FALSE, response |-> NoResponse]

\* the calculator is not part of the server's run
CalculatorIdle ==
    /\ op = "api"
    /\ pc = "idle"
    /\ HAS_YFINANCE = FALSE
    /\ monthly_savings = <<>>
    /\ stock_symbols = None
    /\ weights = None
    /\ total_initial = NoValue
    /\ stock_results = <<>>
    /\ initial_investment = NoValue
    /\ start_date = NoValue
    /\ end_date = NoValue
    /\ yf_outcome = "-"
    /\ price_history = None
    /\ stock_symbol = NoValue
    /\ idx = 1
    /\ stock_symbols_arg = None
    /\ weights_arg = None
    /\ result = NoValue
    /\ ret = NoValue
    /\ raised = "none"

ApiInit ==
    /\ CalculatorIdle
    /\ clock = 0
    /\ cache_file = None
    /\ requests = [r \in 1..MaxRequests |-> FreeSlot]

\* lines 136-141: a request arrives; the handler reads the cache and answers
\* from it, or goes on to await the screener (line 145)
RequestArrives(r) ==
    /\ requests[r].pc \in {"idle", "done"}
    /\ LET loaded == load_cache(cache_file, clock, STOCK_SCREEN_CACHE_TTL)
       IN  /\ cache_file' = loaded.file
           /\ requests' =
                [requests EXCEPT ![r] =
                    IF loaded.data = None
                    THEN [pc |-> "screening", invoked |-> TRUE, wrote |-> FALSE,
                          response |-> NoResponse]
                    ELSE IF Validates(loaded.data.val)
                    THEN [pc |-> "done", invoked |-> FALSE, wrote |-> FALSE,
                          response |-> Response("hit", 200, loaded.data.val, TRUE)]
                    ELSE [pc |-> "done", invoked |-> FALSE, wrote |-> FALSE,
                          response |-> Response("unhandled", 500, NoData, FALSE)]]
    /\ UNCHANGED clock
    /\ UNCHANGED vars

\* lines 145-175: the screener returns and the handler finishes
ScreenerReturns(r) ==
    /\ requests[r].pc = "screening"
    /\ \E screening \in ScreenerResults(clock) :
          IF HasError(screening) /\ ~HasStocks(screening)
          THEN /\ requests' =
                    [requests EXCEPT ![r] =
                        [pc |-> "done", invoked |-> TRUE, wrote |-> FALSE,
                         response |-> Response("http_exception", 500, NoData, FALSE)]]
               /\ UNCHANGED cache_file
          ELSE /\ cache_file' = save_cache(screening, clock)
               /\ requests' =
                    [requests EXCEPT ![r] =
                        [pc |-> "done", invoked |-> TRUE, wrote |-> TRUE,
                         response |->
                            IF Validates(screening)
                            THEN Response("fresh", 200, screening, FALSE)
                            ELSE Response("exception_fallback", 200,
                                          Screening("fallback", clock), FALSE)]]
    /\ UNCHANGED clock
    /\ UNCHANGED vars

\* lines 222-229, for the key stocks_to_invest
ClearCache ==
    /\ cache_file' = None
    /\ UNCHANGED <<clock, requests>>
    /\ UNCHANGED vars

\* time passes
Tick ==
    /\ clock < MaxTicks * TickSeconds
    /\ clock' = clock + TickSeconds
    /\ UNCHANGED <<cache_file, requests>>
    /\ UNCHANGED vars

ApiNext ==
    \/ \E r \in 1..MaxRequests : RequestArrives(r)
    \/ \E r \in 1..MaxRequests : ScreenerReturns(r)
    \/ ClearCache
    \/ Tick

ApiSpec == ApiInit /\ [][ApiNext]_<<vars, api_vars>>

----------------------------------------------------------------------------
(* Properties *)

\* a direct call of calculate_investment_returns or calculate_fallback_returns
\* has returned its InvestmentResult
Returned == op # "portfolio" /\ pc = "done" /\ raised = "none"

\* the symbols the portfolio call works on
SymbolsInUse == IF stock_symbols_arg = None THEN DefaultSymbols ELSE stock_symbols_arg.val

\* the fetch the provider made last ended without data
FetchFailed == yf_outcome \in {"not_installed", "raises", "empty"}

\* C1: every InvestmentResult returned by calculate_investment_returns or
\* calculate_fallback_returns has one more monthly value than monthly
\* returns, for every start/end pair and every price series.
C1_ValuesOneMoreThanReturns ==
    Returned => Len(result.monthly_values) = Len(result.monthly_returns) + 1

\* C2: when the weights passed (one per symbol) sum to 0,
\* calculate_portfolio_returns treats them as equal weights and does not
\* raise.
C2_ZeroSumWeightsBecomeEqual ==
    (op = "portfolio" /\ pc = "done" /\ weights_arg # None
        /\ Len(weights_arg.val) = Len(SymbolsInUse)
        /\ RIsZero(RSum(weights_arg.val)))
    => /\ raised = "none"
       /\ weights = Some(EqualWeights(Len(SymbolsInUse)))

\* C3: when the contributions total 0, the PortfolioResult returned holds
\* total_earnings, total_return_percent, final_value and initial_investment,
\* all 0, and an empty monthly_breakdown.
C3_ZeroTotalAllFieldsZero ==
    (op = "portfolio" /\ pc = "done" /\ raised = "none"
        /\ SumSavings(monthly_savings) = 0)
    => /\ {"total_earnings", "total_return_percent", "final_value",
           "initial_investment", "monthly_breakdown"} \subseteq DOMAIN ret
       /\ ret.total_earnings = RZero
       /\ ret.total_return_percent = RZero
       /\ ret.final_value = RZero
       /\ ret.initial_investment = RZero
       /\ ret.monthly_breakdown = <<>>

\* the step after a failed fetch appends the FallbackModel result for the
\* symbol's share of the total over the window, and nothing else changes in
\* stock_results
C4_FailedFetchStep ==
    (op = "portfolio" /\ pc = "calc" /\ FetchFailed)
    => /\ raised' = "none"
       /\ pc' = "loop"
       /\ stock_results' =
            Append(stock_results,
                   [symbol |-> SymbolsInUse[idx],
                    weight |-> weights.val[idx],
                    result |-> calculate_fallback_returns(
                                   RMul(total_initial, weights.val[idx]),
                                   <<monthly_savings[1].month[1],
                                     monthly_savings[1].month[2], 1>>,
                                   <<Last(monthly_savings).month[1],
                                     Last(monthly_savings).month[2], 28>>,
                                   SymbolsInUse[idx])])

\* an exception never follows a failed fetch, and a call that returns past
\* the zero-total check reports one entry per symbol, in order
C4_FailedFetchState ==
    op = "portfolio"
    => /\ (raised # "none" /\ yf_outcome # "-") => ~FetchFailed
       /\ (pc = "done" /\ raised = "none" /\ SumSavings(monthly_savings) # 0)
          => /\ Len(ret.stock_results) = Len(SymbolsInUse)
             /\ \A i \in 1..Len(SymbolsInUse) :
                    ret.stock_results[i].symbol = SymbolsInUse[i]

\* C4: a fetch that raises or yields no data never makes the portfolio call
\* fail: that symbol's entry is the FallbackModel result, the entries of the
\* other symbols stay as they are, and the call returns one entry per
\* symbol.
C4_FetchFailureFallsBack == []C4_FailedFetchState /\ [][C4_FailedFetchStep]_vars

\* a second symbol's fetch has failed after a first symbol was computed from
\* real prices, and its fallback entry has been appended
C4_Witness ==
    /\ op = "portfolio" /\ pc = "loop" /\ FetchFailed
    /\ Len(stock_results) = 2
    /\ Len(stock_results[1].result.dates) = 2
    /\ stock_results[1].result.dates[2] = <<2023, 2, 1>>
    /\ stock_results[2].result.volatility = Surd(RInt(2), ROne)

\* C5: calculate_investment_returns never raises when every price is >= 0
\* and initial_investment >= 0, also when the first price is 0.
C5_NeverRaises ==
    (op = "investment" /\ pc = "done") => raised = "none"

\* C6: with initial_investment = 0, calculate_investment_returns (series of
\* positive prices) and calculate_fallback_returns return
\* total_return_percent = 0, every monthly return computed from the series is
\* 0, and nothing is raised.
C6_ZeroInvestment ==
    (op # "portfolio" /\ pc = "done" /\ initial_investment = RZero
        /\ (price_history # None
            => \A i \in 1..Len(price_history.val) : price_history.val[i].price > 0))
    => /\ raised = "none"
       /\ result.total_return_percent = RZero
       /\ (price_history # None /\ Len(price_history.val) >= 2)
          => \A i \in 1..Len(result.monthly_returns) : result.monthly_returns[i] = RZero

\* nothing was invested in a series of two positive prices a month apart
C6_Witness ==
    /\ Returned /\ op = "investment" /\ initial_investment = RZero
    /\ price_history # None
    /\ Len(price_history.val) = 2
    /\ \A i \in 1..2 : price_history.val[i].price > 0
    /\ price_history.val[1].price # price_history.val[2].price
    /\ Len(result.monthly_returns) = 1

\* C7: for any weights list passed, the weights used for the per-symbol
\* split sum to 1.
C7_WeightsSumToOne ==
    (op = "portfolio" /\ pc = "done" /\ weights_arg # None /\ Len(SymbolsInUse) > 0)
    => /\ raised \notin {"ZeroDivisionError at line 232", "ZeroDivisionError at line 236"}
       /\ RSum(weights.val) = ROne

\* C8: whenever len(weights) # len(symbols), the weights passed are dropped,
\* every symbol gets 1/len(symbols), and the reset raises nothing.
C8_LengthMismatchResets ==
    (op = "portfolio" /\ pc = "done" /\ weights_arg # None
        /\ Len(weights_arg.val) # Len(SymbolsInUse))
    => /\ raised \notin {"ZeroDivisionError at line 232", "ZeroDivisionError at line 236"}
       /\ Len(weights.val) = Len(SymbolsInUse)
       /\ \A i \in 1..Len(SymbolsInUse) : weights.val[i] = Rat(1, Len(SymbolsInUse))

\* C9: calculate_fallback_returns compounds by (1 + 0.10/12) exactly
\* max(1, months) times, one monthly value per step, final_value is the last
\* of them, and so exceeds a positive initial_investment.
C9_FallbackCompoundsAtLeastOnce ==
    (op = "fallback" /\ pc = "done")
    => LET n == Max(1, MonthsBetween(start_date, end_date))
       IN  /\ Len(result.monthly_values) = n + 1
           /\ result.final_value = Last(result.monthly_values)
           /\ result.final_value
                = RMul(initial_investment, RPow(RAdd(ROne, monthly_return_rate), n))
           /\ RLt(RZero, initial_investment)
              => RLt(initial_investment, result.final_value)

\* C10: when the provider returns None, an empty series or a single point,
\* calculate_investment_returns returns the record of
\* calculate_fallback_returns for the same arguments, field for field.
C10_InsufficientDataDelegates ==
    (op = "investment" /\ pc = "done"
        /\ (price_history = None \/ Len(price_history.val) < 2))
    => /\ raised = "none"
       /\ result = calculate_fallback_returns(initial_investment, start_date, end_date,
                                              stock_symbol)

\* the provider gave a single point for a window of one month or more
C10_Witness ==
    /\ Returned /\ op = "investment"
    /\ price_history # None
    /\ Len(price_history.val) = 1
    /\ MonthsBetween(start_date, end_date) >= 1
    /\ Len(result.monthly_values) >= 2

\* a portfolio call that got past the zero-total check and returned
PortfolioReturned ==
    op = "portfolio" /\ pc = "done" /\ raised = "none" /\ SumSavings(monthly_savings) # 0

\* the sum of the final_value fields reported per symbol
ReportedSum == RSum([i \in 1..Len(ret.stock_results) |-> ret.stock_results[i].final_value])

\* C11: past the zero-total check, the final_value reported differs from the
\* sum of the final_value fields reported per symbol by at most half a cent
\* for each rounded number (the n per-symbol values and the total).
C11_FinalValueIsSumOfReported ==
    PortfolioReturned
    => LET diff == RSub(ret.final_value, ReportedSum)
           tol == Rat(Len(ret.stock_results) + 1, 200)
       IN  RLe(RSub(RZero, tol), diff) /\ RLe(diff, tol)

\* three symbols hold a third each, and the rounding shows: the reported
\* per-symbol values do not add up to the reported total
C11_Witness ==
    /\ PortfolioReturned
    /\ Len(ret.stock_results) = 3
    /\ ret.final_value # ReportedSum

RNonNeg(x) == RLe(RZero, x)

\* the weights passed to the portfolio call are absent or all non-negative
\* (contributions, prices and the direct calls' investment are never
\* negative)
NonNegativeInputs ==
    op = "portfolio"
    => (weights_arg = None \/ \A i \in 1..Len(weights_arg.val) : RNonNeg(weights_arg.val[i]))

\* the value fields of the results: everything monetary but the gains
C12_ValueFieldsNonNegative ==
    /\ Returned
       => /\ RNonNeg(result.final_value)
          /\ \A i \in 1..Len(result.monthly_values) : RNonNeg(result.monthly_values[i])
    /\ (PortfolioReturned /\ NonNegativeInputs)
       => /\ RNonNeg(ret.final_value)
          /\ RNonNeg(ret.initial_investment)
          /\ \A i \in 1..Len(ret.stock_results) : RNonNeg(ret.stock_results[i].final_value)
          /\ \A i \in 1..Len(ret.monthly_breakdown) :
                /\ RNonNeg(ret.monthly_breakdown[i].savings)
                /\ RNonNeg(ret.monthly_breakdown[i].potential_value)
                /\ RNonNeg(ret.monthly_breakdown[i].potential_earnings)

\* C12 as stated: given non-negative contributions, weights and prices, every
\* monetary field of an InvestmentResult (final_value, total_return,
\* monthly_values) and of a PortfolioResult (final_value, initial_investment,
\* total_earnings, per-symbol final_value, breakdown savings, potential_value,
\* potential_earnings) is non-negative.
C12_AllMonetaryFieldsNonNegative ==
    /\ C12_ValueFieldsNonNegative
    /\ Returned => RNonNeg(result.total_return)
    /\ (PortfolioReturned /\ NonNegativeInputs) => RNonNeg(ret.total_earnings)

\* C12, amended: given non-negative contributions, weights and prices, the
\* value fields (final_value, monthly_values, initial_investment, per-symbol
\* final_value, breakdown savings, potential_value, potential_earnings) are
\* non-negative; the gains total_return and total_earnings are signed, and
\* never below minus the amount invested.
C12_ValuesNonNegativeGainsSigned ==
    /\ C12_ValueFieldsNonNegative
    /\ Returned => RLe(RSub(RZero, initial_investment), result.total_return)
    /\ (PortfolioReturned /\ NonNegativeInputs)
       => RLe(RSub(RZero, ret.initial_investment), ret.total_earnings)

\* a portfolio of non-negative weights over two symbols whose prices fell:
\* the earnings are negative while every value field is reported
C12_Witness ==
    /\ PortfolioReturned /\ NonNegativeInputs
    /\ weights_arg # None
    /\ Len(ret.stock_results) = 2
    /\ Len(ret.monthly_breakdown) >= 1
    /\ RLt(ret.total_earnings, RZero)
    /\ RLt(RZero, ret.final_value)

\* x has at most two decimals
IsRounded2(x) == Round2(x) = x

\* C14: every monetary output of calculate_portfolio_returns is rounded to 2
\* decimals: total_earnings, final_value, initial_investment, each
\* stock_results final_value, and each monthly_breakdown potential_value and
\* potential_earnings.
C14_MonetaryOutputsRounded ==
    PortfolioReturned
    => /\ IsRounded2(ret.total_earnings)
       /\ IsRounded2(ret.final_value)
       /\ IsRounded2(ret.initial_investment)
       /\ \A i \in 1..Len(ret.stock_results) : IsRounded2(ret.stock_results[i].final_value)
       /\ \A i \in 1..Len(ret.monthly_breakdown) :
             /\ IsRounded2(ret.monthly_breakdown[i].potential_value)
             /\ IsRounded2(ret.monthly_breakdown[i].potential_earnings)

\* C15: when the contributions total 0, calculate_portfolio_returns returns
\* the short-circuit result without ever reaching the per-symbol loop, the
\* provider or calculate_investment_returns, and without a division (so
\* without a division error), for every symbols list and every weights list,
\* weights that sum to 0 included.
C15_ZeroTotalShortCircuits ==
    (op = "portfolio" /\ SumSavings(monthly_savings) = 0)
    => /\ pc \notin {"loop", "fetch", "blocked", "calc", "combine"}
       /\ yf_outcome = "-"
       /\ stock_results = <<>>
       /\ pc = "done" => (raised = "none" /\ ret = ShortCircuitResult)

\* the share of symbol i: the weight passed over the sum of the weights
\* passed, or an equal share when no usable weights were passed
ExpectedWeight(i) ==
    IF weights_arg = None \/ Len(weights_arg.val) # Len(SymbolsInUse)
    THEN Rat(1, Len(SymbolsInUse))
    ELSE RDiv(weights_arg.val[i], RSum(weights_arg.val))

\* C16: the totals are computed only after every symbol's calculation has
\* completed: with a positive contribution total, the combination starts
\* with one result per input symbol, and the result returned lists exactly
\* one entry per input symbol, in input order, each with its normalized
\* weight, and its final_value is the (rounded) sum over all of them.
C16_TotalsAfterEverySymbol ==
    (op = "portfolio" /\ pc \in {"combine", "done"} /\ raised = "none"
        /\ SumSavings(monthly_savings) # 0)
    => LET n == Len(SymbolsInUse)
       IN  /\ Len(stock_results) = n
           /\ \A i \in 1..n : stock_results[i].symbol = SymbolsInUse[i]
           /\ pc = "done"
              => /\ Len(ret.stock_results) = n
                 /\ \A i \in 1..n :
                       /\ ret.stock_results[i].symbol = SymbolsInUse[i]
                       /\ ret.stock_results[i].weight = ExpectedWeight(i)
                 /\ ret.final_value
                      = Round2(RSum([i \in 1..n |-> stock_results[i].result.final_value]))

\* two symbols weighted 1 and 2, the first computed from real prices and the
\* second from the fallback, are both in the result returned
C16_Witness ==
    /\ PortfolioReturned
    /\ weights_arg = Some(RatSeq(<<1, 2>>))
    /\ Len(ret.stock_results) = 2
    /\ ret.stock_results[1].weight = Rat(1, 3)
    /\ ret.stock_results[2].weight = Rat(2, 3)
    /\ stock_results[1].result.volatility # Surd(RInt(2), ROne)
    /\ stock_results[2].result.volatility = Surd(RInt(2), ROne)

\* C17: every provider fetch is bounded by a timeout: a fetch that the
\* provider never answers ends all the same, without data, and the symbol's
\* calculation goes on (to the fallback), so that the call can return.
C17_UnansweredFetchEnds ==
    [][(pc = "fetch" /\ yf_outcome' = "hangs")
       => (pc' = "calc" /\ price_history' = None)]_vars

\* the positions (from 1) of the contributions with a non-zero amount, in order
NonZeroPositions(ms) ==
    LET F[i \in 0..Len(ms)] ==
            IF i = 0 THEN <<>>
            ELSE IF ms[i].savings = 0 THEN F[i - 1]
            ELSE Append(F[i - 1], i)
    IN  F[Len(ms)]

\* C18: the monthly_breakdown has one entry per contribution with a non-zero
\* amount, in order, and the entry of the contribution at 0-based position i
\* of n has potential_value = savings * (1 + 0.10/12)^(n - i), counting the
\* months by position: also when two contributions are equal records.
C18_BreakdownCountsByPosition ==
    PortfolioReturned
    => LET n == Len(monthly_savings)
           pos == NonZeroPositions(monthly_savings)
       IN  /\ Len(ret.monthly_breakdown) = Len(pos)
           /\ \A k \in 1..Len(pos) :
                 LET c == monthly_savings[pos[k]]
                     months_until_end == n - (pos[k] - 1)
                 IN  /\ ret.monthly_breakdown[k].month = c.month
                     /\ ret.monthly_breakdown[k].savings = RInt(c.savings)
                     /\ ret.monthly_breakdown[k].potential_value
                          = RMul(RInt(c.savings),
                                 RPow(RAdd(ROne, Rat(10, 1200)), months_until_end))

\* C19: the monthly_breakdown depends on the contribution sequence alone: in
\* every result returned past the zero-total check it is the list computed
\* from monthly_savings only, whatever the symbols, the weights and the
\* provider's outcomes were.
C19_BreakdownFromContributionsOnly ==
    PortfolioReturned => ret.monthly_breakdown = MonthlyBreakdown(monthly_savings)

\* weights were passed, the symbol's prices came from the provider and
\* doubled, and the breakdown still shows the assumed 10% a year
C19_Witness ==
    /\ PortfolioReturned
    /\ weights_arg # None
    /\ yf_outcome = "rows"
    /\ Len(ret.stock_results) = 1
    /\ ret.final_value = RMul(RInt(2), ret.initial_investment)
    /\ Len(ret.monthly_breakdown) = 2
    /\ ret.monthly_breakdown[2].potential_value = Rat(121, 120)

\* C20: on a series of two points or more, whatever the order the provider
\* delivered them in, calculate_investment_returns buys at the price of an
\* earliest point and appends, for every calendar month after the first one
\* present, in ascending order, exactly one value: shares_owned times the
\* price of a latest point of that month. So there are as many monthly
\* returns as distinct year-months, less one.
C20_OneEntryPerLaterMonth ==
    (op = "investment" /\ pc = "done" /\ raised = "none"
        /\ price_history # None /\ Len(price_history.val) >= 2)
    => LET h == price_history.val
           I == 1..Len(h)
           months == {YearMonth(h[i].date) : i \in I}
           first == CHOOSE m \in months : \A m2 \in months : m2 = m \/ YearMonthLt(m, m2)
           later == months \ {first}
           Earliest == {i \in I : \A j \in I : DateLe(h[i].date, h[j].date)}
           LatestOf(m) == {i \in I : /\ YearMonth(h[i].date) = m
                                     /\ \A j \in I : YearMonth(h[j].date) = m
                                                     => DateLe(h[j].date, h[i].date)}
           Rank(m) == Cardinality({m2 \in later : YearMonthLt(m2, m)}) + 1
       IN  /\ Len(result.monthly_returns) = Cardinality(months) - 1
           /\ Len(result.monthly_values) = Cardinality(months)
           /\ \E e \in Earliest :
                 /\ h[e].price # 0
                 /\ \A m \in later :
                       \E l \in LatestOf(m) :
                           result.monthly_values[Rank(m) + 1]
                             = RMul(RDiv(initial_investment, RInt(h[e].price)),
                                    RInt(h[l].price))

\* three points delivered latest first: two in February at different prices,
\* after one in January; the one value appended is that of 15 February
C20_Witness ==
    /\ Returned /\ op = "investment"
    /\ price_history # None
    /\ Len(price_history.val) = 3
    /\ price_history.val[1].date = <<2023, 2, 15>>
    /\ price_history.val[2].date = <<2023, 2, 5>>
    /\ price_history.val[3].date = <<2023, 1, 10>>
    /\ price_history.val[1].price = 2
    /\ price_history.val[2].price = 1
    /\ price_history.val[3].price = 1
    /\ initial_investment = RInt(1)
    /\ Len(result.monthly_returns) = 1
    /\ result.monthly_values = <<RInt(1), RInt(2)>>

\* C21: on a series of two points or more, calculate_investment_returns
\* returns final_value = (initial_investment / first price) * last price,
\* first and last in date order (among points of one date, in delivery
\* order), also when the whole series lies in one calendar month and
\* monthly_values holds the initial investment alone.
C21_FinalValueFromFirstAndLastPrice ==
    (op = "investment" /\ pc = "done" /\ raised = "none"
        /\ price_history # None /\ Len(price_history.val) >= 2)
    => LET h == price_history.val
           I == 1..Len(h)
           Earliest == {i \in I : \A j \in I : DateLe(h[i].date, h[j].date)}
           Latest == {i \in I : \A j \in I : DateLe(h[j].date, h[i].date)}
           first == CHOOSE i \in Earliest : \A j \in Earliest : i <= j
           last == CHOOSE i \in Latest : \A j \in Latest : j <= i
       IN  /\ h[first].price # 0
           /\ result.final_value
                = RMul(RDiv(initial_investment, RInt(h[first].price)), RInt(h[last].price))
           /\ (\A i \in I : YearMonth(h[i].date) = YearMonth(h[1].date))
              => result.monthly_values = <<initial_investment>>

\* two points of February, the later one delivered first, at prices 2 and 1:
\* no monthly mark is appended and the final value is the doubled investment
C21_Witness ==
    /\ Returned /\ op = "investment"
    /\ price_history # None
    /\ price_history.val = <<[date |-> <<2023, 2, 15>>, price |-> 2],
                             [date |-> <<2023, 2, 5>>, price |-> 1]>>
    /\ initial_investment = RInt(1)
    /\ result.monthly_values = <<RInt(1)>>
    /\ result.final_value = RInt(2)

\* C22: every symbol is evaluated over the same window: whenever a symbol's
\* fetch or calculation is under way, start_date is day 1 of the month of the
\* first contribution of the sequence and end_date is day 28 of the month of
\* the last one, by position.
C22_WindowFromFirstAndLastContribution ==
    (op = "portfolio" /\ pc \in {"fetch", "blocked", "calc"})
    => /\ start_date = <<monthly_savings[1].month[1], monthly_savings[1].month[2], 1>>
       /\ end_date = <<Last(monthly_savings).month[1], Last(monthly_savings).month[2], 28>>

\* contributions listed February first and December last: the second symbol
\* is fetched over a window that starts after it ends
C22_Witness ==
    /\ op = "portfolio" /\ pc = "fetch" /\ idx = 2
    /\ Len(monthly_savings) = 2
    /\ monthly_savings[1].month = <<2023, 2>>
    /\ monthly_savings[2].month = <<2022, 12>>
    /\ start_date = <<2023, 2, 1>>
    /\ end_date = <<2022, 12, 28>>

\* total_weight of line 235: the sum of the weights in use before they are
\* divided by it (read in states past the normalisation)
TotalWeight ==
    IF weights_arg = None \/ Len(weights_arg.val) # Len(SymbolsInUse)
    THEN ROne
    ELSE RSum(weights_arg.val)

\* C23: for every symbols/weights input whose weight sum is not 0, each
\* symbol is evaluated with initial_investment = total_initial * its
\* normalized weight, and once every symbol has been evaluated the
\* per-symbol initial investments add up to total_initial.
C23_WholeTotalAllocated ==
    (op = "portfolio" /\ raised = "none" /\ ~RIsZero(TotalWeight))
    => /\ pc \in {"fetch", "blocked", "calc"}
          => initial_investment = RMul(total_initial, ExpectedWeight(idx))
       /\ (pc \in {"combine", "done"} /\ SumSavings(monthly_savings) # 0)
          => /\ \A i \in 1..Len(stock_results) :
                   stock_results[i].result.initial_investment
                     = RMul(total_initial, ExpectedWeight(i))
             /\ RSum([i \in 1..Len(stock_results) |->
                         stock_results[i].result.initial_investment]) = total_initial

\* weights 2 and -1 over two symbols and a total of 2: the symbols were
\* evaluated with 4 and -2, which add up to the total
C23_Witness ==
    /\ PortfolioReturned
    /\ weights_arg = Some(RatSeq(<<2, -1>>))
    /\ total_initial = RInt(2)
    /\ Len(stock_results) = 2
    /\ stock_results[1].result.initial_investment = RInt(4)
    /\ stock_results[2].result.initial_investment = RInt(-2)

\* C24: every InvestmentResult returned by calculate_investment_returns or
\* calculate_fallback_returns has exactly one date label per monthly value,
\* on the historical path and on the fallback path.
C24_OneDatePerMonthlyValue ==
    Returned => Len(result.dates) = Len(result.monthly_values)

\* request r arrives in this step
ArrivalStep(r) == requests[r].pc \in {"idle", "done"} /\ requests'[r] # requests[r]

\* the screener returns to request r in this step and the handler finishes
ScreenerStep(r) == requests[r].pc = "screening" /\ requests'[r].pc = "done"

\* the cache holds an entry that is no older than the TTL
CacheFresh ==
    cache_file # None /\ clock - cache_file.val.cached_at <= STOCK_SCREEN_CACHE_TTL

\* a request met by a fresh entry that a successful screening saved is
\* answered with that entry, cached = true, and the screener is not invoked
C25_HitStep(r) ==
    (ArrivalStep(r) /\ CacheFresh /\ Validates(cache_file.val.data))
    => /\ requests'[r].pc = "done"
       /\ ~requests'[r].invoked
       /\ requests'[r].response = Response("hit", 200, cache_file.val.data, TRUE)
       /\ cache_file' = cache_file

\* a request that finds the entry expired or cleared leaves no entry behind
\* and invokes the screener; what it answers was generated by that call
C25_MissStep(r) ==
    /\ (ArrivalStep(r) /\ ~CacheFresh)
       => /\ cache_file' = None
          /\ requests'[r].pc = "screening"
          /\ requests'[r].invoked
    /\ (ScreenerStep(r) /\ requests'[r].response.status = 200)
       => /\ ~requests'[r].response.cached
          /\ requests'[r].response.body.dateGenerated = clock

\* a request that ends with HTTP 500 or with the exception fallback has not
\* written the cache
C25_ErrorPathStep(r) ==
    (ScreenerStep(r)
        /\ requests'[r].response.path \in {"http_exception", "exception_fallback"})
    => /\ ~requests'[r].wrote
       /\ cache_file' = cache_file

====
